---- MODULE Spec2Model ----
(***************************************************************************)
(* NCAA statistics collection: page discovery, per-category concatenation  *)
(* and the merge into one master table keyed by Team.                      *)
(*                                                                         *)
(*   NCAADataCollector  (src/src/data_collection_updated.py)               *)
(*   get_subsequent_links / get_df  (src/src/data_collection.py)           *)
(*                                                                         *)
(* A URL is a record [host, path]: host is <<>> for a relative href and    *)
(* <<"https://www.ncaa.com">> for an absolute one; path is the sequence of *)
(* path segments.  A table (a DataFrame) is [cols, rows]: the ordered      *)
(* column names and the ordered rows, each row a function from the column  *)
(* names to cells.  A missing cell is NaN.                                 *)
(***************************************************************************)
EXTENDS Integers, Sequences, FiniteSets, TLC

VARIABLES
    outer_sorts,        \* pd.merge sorted the join keys (the pandas release decides)
    pc,                 \* position in get_full_stat_dataframe
    i,                  \* index into stat_ids of the category being collected
    subsequent_links,   \* the page list of the current category
    k,                  \* index into subsequent_links of the next page
    df_list_for_stat,   \* tables extracted for the current category
    all_dfs,            \* the tables of the categories collected so far
    master_df,          \* the value returned by get_full_stat_dataframe
    since_fetch,        \* seconds elapsed since the last response or failure
    last_status,        \* how the last session.get ended
    page_log,           \* per page of the current category: what extraction gave
    attempted,          \* the stat ids whose start page was requested, in order
    self_linked,        \* the current start page carried an href to itself
    page_hrefs,         \* hrefs of the <a> tags of a start page (link discovery)
    unique_links,       \* result of _get_subsequent_links on page_hrefs
    link_list,          \* result of the script's get_subsequent_links
    df_links            \* the links the script's get_df fetches: link_list[:-1]

vars == <<outer_sorts, pc, i, subsequent_links, k, df_list_for_stat, all_dfs,
          master_df, since_fetch, last_status, page_log, attempted, self_linked,
          page_hrefs, unique_links, link_list, df_links>>

----
\* Bounds of the model.

\* <a> tags on one start page
MaxHrefs == 3
\* body rows of the table on one fetched page
MaxPageRows == 1

----
\* Program constants.

base_url == "https://www.ncaa.com"

\* time.sleep(1)
POLITE_DELAY == 1

\* master_df.fillna(0, inplace=True)
FILL_VALUE == "0"

\* the argument of get_full_stat_dataframe: the first two of all_stats_ids
stat_ids == <<"474", "216">>

\* a missing cell (float NaN); cells are modelled by their text
NaN == "NaN"

----
\* Sequences.

Range(s) == {s[j] : j \in DOMAIN s}

SeqsUpTo(S, n) == UNION {[1..m -> S] : m \in 0..n}

Occurrences(x, s) == Cardinality({j \in DOMAIN s : s[j] = x})

NoDuplicates(s) == \A a, b \in DOMAIN s : s[a] = s[b] => a = b

RECURSIVE Flatten(_)
Flatten(ss) == IF ss = <<>> THEN <<>> ELSE Head(ss) \o Flatten(Tail(ss))

IsPrefix(p, s) == Len(p) <= Len(s) /\ SubSeq(s, 1, Len(p)) = p

\* list(dict.fromkeys(s)): the first occurrence of each element, in order
FirstOccurrences(s) ==
    LET first(j) == \A h \in 1..(j - 1) : s[h] # s[j]
        F[j \in 0..Len(s)] ==
            IF j = 0 THEN <<>>
            ELSE IF first(j) THEN Append(F[j - 1], s[j]) ELSE F[j - 1]
    IN F[Len(s)]

----
\* URLs.

team_path == <<"stats", "basketball-men", "d1", "current", "team">>

Url(host, path) == [host |-> host, path |-> path]

\* f'{self.base_url}/stats/basketball-men/d1/current/team/{stat_id}'
initial_url(stat_id) == Url(<<base_url>>, team_path \o <<stat_id>>)

\* str.startswith(base_url_prefix), the prefix being initial_url + '/': the href
\* is absolute, runs through the category's path and goes on after its slash
StartsWithPrefix(href, stat_id) ==
    /\ href.host = <<base_url>>
    /\ IsPrefix(team_path \o <<stat_id>>, href.path)
    /\ Len(href.path) > Len(team_path) + 1

\* re.compile(f"^{base_url_prefix}.*stats"): the prefix, then "stats" somewhere
\* in what follows it
MatchesPrefixStats(href, stat_id) ==
    /\ StartsWithPrefix(href, stat_id)
    /\ \E j \in (Len(team_path) + 2)..Len(href.path) : href.path[j] = "stats"

\* NCAADataCollector._get_subsequent_links
_get_subsequent_links(hrefs, stat_id) ==
    LET links == SelectSeq(hrefs, LAMBDA h : MatchesPrefixStats(h, stat_id)
                                                /\ StartsWithPrefix(h, stat_id))
    IN FirstOccurrences(links)

\* get_subsequent_links of the script: every href containing "stats", each
\* prefixed with base_url, duplicates kept
get_subsequent_links(hrefs) ==
    LET alltags == SelectSeq(hrefs, LAMBDA h : "stats" \in Range(h.path))
    IN [j \in DOMAIN alltags |->
            Url(<<base_url>> \o alltags[j].host, alltags[j].path)]

\* link_list[:-1] in get_df
AllButLast(s) == IF s = <<>> THEN <<>> ELSE SubSeq(s, 1, Len(s) - 1)

PageListNoInsert(url, links) == links

\* if initial_url not in subsequent_links: subsequent_links.insert(0, initial_url)
PageList(url, links) ==
    IF url \notin Range(links) THEN <<url>> \o links ELSE links

----
\* Tables.

key == "Team"

\* pd.DataFrame()
EmptyFrame == [cols |-> <<>>, rows |-> <<>>]

Cell(row, c) == IF c \in DOMAIN row THEN row[c] ELSE NaN

Reindex(row, cols) == [c \in Range(cols) |-> Cell(row, c)]

\* pd.concat(dfs, ignore_index=True): the union of the columns in order of first
\* appearance, the rows of the frames one after the other, NaN where a frame
\* lacks a column
concat(dfs) ==
    LET cols == FirstOccurrences(Flatten([j \in DOMAIN dfs |-> dfs[j].cols]))
        rows == Flatten([j \in DOMAIN dfs |-> dfs[j].rows])
    IN [cols |-> cols, rows |-> [j \in DOMAIN rows |-> Reindex(rows[j], cols)]]

\* str(v): a str is itself, NaN is 'nan'
str(v) == IF v = NaN THEN "nan" ELSE v

\* df['Team'] = df['Team'].astype(str)
astype_str(df) ==
    [df EXCEPT !.rows = [j \in DOMAIN df.rows |->
                            [df.rows[j] EXCEPT ![key] = str(df.rows[j][key])]]]

\* df.drop(columns=dup_cols, errors='ignore')
drop(df, columns) ==
    LET cols == SelectSeq(df.cols, LAMBDA c : c \notin columns)
    IN [cols |-> cols, rows |-> [j \in DOMAIN df.rows |-> Reindex(df.rows[j], cols)]]

\* [col for col in df.columns if col in master_df.columns and col != 'Team']
dup_cols(df, master) == {c \in Range(df.cols) : c \in Range(master.cols) /\ c # key}

KeysOf(df) == [j \in DOMAIN df.rows |-> df.rows[j][key]]

RowsWithKey(df, t) == SelectSeq(df.rows, LAMBDA r : r[key] = t)

\* Python's order (by code point) of the strings that occur as Team
str_order == <<"Duke", "Kansas", "UNC", "nan">>

sorted(S) == SelectSeq(str_order, LAMBDA t : t \in S)

\* The order of the join keys of an outer merge.  pandas documents "outer: sort
\* keys lexicographically" and does so from 2.2 on; earlier releases group the
\* rows by key in order of first appearance, left frame first.
MergeKeys(left, right, sorts) ==
    IF sorts THEN sorted(Range(KeysOf(left)) \cup Range(KeysOf(right)))
    ELSE FirstOccurrences(KeysOf(left) \o KeysOf(right))

\* a left row and a right row with the same key, side by side
JoinRow(l, r, cols) ==
    [c \in Range(cols) |-> IF c \in DOMAIN l THEN l[c] ELSE Cell(r, c)]

\* the rows of one join key: the pairs of a left and a right row with that key,
\* left-major; a row without partner is paired with NaNs
KeyGroup(left, right, cols, t) ==
    LET L == RowsWithKey(left, t)
        R == RowsWithKey(right, t)
    IN IF R = <<>> THEN [j \in DOMAIN L |-> Reindex(L[j], cols)]
       ELSE IF L = <<>> THEN [j \in DOMAIN R |-> Reindex(R[j], cols)]
       ELSE Flatten([a \in DOMAIN L |->
                        [b \in DOMAIN R |-> JoinRow(L[a], R[b], cols)]])

merge_inner(left, right, sorts) ==
    LET cols == left.cols \o SelectSeq(right.cols, LAMBDA c : c # key)
        keys == SelectSeq(MergeKeys(left, right, sorts),
                          LAMBDA t : t \in Range(KeysOf(left)) \cap Range(KeysOf(right)))
    IN [cols |-> cols,
        rows |-> Flatten([j \in DOMAIN keys |-> KeyGroup(left, right, cols, keys[j])])]

\* pd.merge(left, right, on='Team', how='outer'), right sharing only Team with left
merge(left, right, sorts) ==
    LET cols == left.cols \o SelectSeq(right.cols, LAMBDA c : c # key)
        keys == MergeKeys(left, right, sorts)
    IN [cols |-> cols,
        rows |-> Flatten([j \in DOMAIN keys |-> KeyGroup(left, right, cols, keys[j])])]

MergeStepLaterWins(master, df, sorts) ==
    merge(drop(master, dup_cols(df, master)), df, sorts)

\* the body of "for i, df in enumerate(all_dfs[1:])"
MergeStep(master, df, sorts) ==
    merge(master, drop(df, dup_cols(df, master)), sorts)

fillna_skipped(df) == df

\* master_df.fillna(0, inplace=True)
fillna(df) ==
    [df EXCEPT !.rows = [j \in DOMAIN df.rows |->
        [c \in DOMAIN df.rows[j] |->
            IF df.rows[j][c] = NaN THEN FILL_VALUE ELSE df.rows[j][c]]]]

\* master_df after the merge loop over dfs, before fillna
MergeLoop(dfs, sorts) ==
    LET M[j \in 1..Len(dfs)] ==
            IF j = 1 THEN dfs[1] ELSE MergeStep(M[j - 1], dfs[j], sorts)
    IN M[Len(dfs)]

----
\* What the site serves.

FetchStatus == {"ok", "timeout", "http_error", "network_error"}

\* the teams the site lists in a category: one in both, one in each alone
site_teams ==
    [s \in Range(stat_ids) |-> IF s = "474" THEN {"Duke", "UNC"} ELSE {"Duke", "Kansas"}]

\* the cell the site shows for a team in a column of a category's table
site_cell ==
    [s \in Range(stat_ids) |->
        IF s = "474"
        THEN [c \in {"Pts", "Reb"} |->
                IF c = "Pts" THEN [t \in site_teams[s] |-> IF t = "Duke" THEN "80" ELSE "75"]
                ELSE [t \in site_teams[s] |-> IF t = "Duke" THEN "35" ELSE "33"]]
        ELSE [c \in {"Pts", "Reb"} |->
                IF c = "Pts" THEN [t \in site_teams[s] |-> IF t = "Duke" THEN "81" ELSE "71"]
                ELSE [t \in site_teams[s] |-> IF t = "Duke" THEN "30" ELSE "28"]]]

\* the header rows a statistics table may have
PageColumns == {<<"Team", "Pts">>, <<"Team", "Reb">>}

\* a first table that is not a statistics table: it has no Team column
OtherTable == [cols |-> <<"Conference">>, rows |-> <<[Conference |-> "ACC"]>>]

\* what pd.read_html gives for a table with these columns and one row per team
PageTable(stat_id, cols, teams) ==
    [cols |-> cols,
     rows |-> [j \in DOMAIN teams |->
                 [c \in Range(cols) |->
                     IF c = key THEN teams[j] ELSE site_cell[stat_id][c][teams[j]]]]]

\* the first <table> of a page: none, one read_html cannot parse, or a table
SiteTables(stat_id) ==
    {[kind |-> "none", df |-> EmptyFrame], [kind |-> "unparsable", df |-> EmptyFrame],
     [kind |-> "table", df |-> OtherTable]}
    \cup {[kind |-> "table", df |-> PageTable(stat_id, cols, teams)] :
            cols \in PageColumns, teams \in SeqsUpTo(site_teams[stat_id], MaxPageRows)}

\* hrefs a start page of the category may carry: itself, page 2 as the site
\* writes it, page 2 with "stats" after the prefix, a navigation link
SiteHrefs(stat_id) ==
    {initial_url(stat_id),
     Url(<<base_url>>, team_path \o <<stat_id, "p2">>),
     Url(<<base_url>>, team_path \o <<stat_id, "p2", "stats">>),
     Url(<<>>, <<"scoreboard">>)}

\* the same and relative links to the category's pages, a second matching page
LinkHrefs(stat_id) ==
    SiteHrefs(stat_id)
    \cup {Url(<<>>, team_path \o <<stat_id>>),
          Url(<<>>, team_path \o <<stat_id, "p2">>),
          Url(<<base_url>>, team_path \o <<stat_id, "p3", "stats">>)}

----
\* NCAADataCollector.

sleep_after_success_only(status) == IF status = "ok" THEN POLITE_DELAY ELSE 0

\* _get_soup, finally: time.sleep(1)
sleep_after(status) == POLITE_DELAY

\* _get_soup: the soup, or None after a RequestException
_get_soup(status) == status = "ok"

\* get_team_stats_data: the table of the page, or None
get_team_stats_data(status, table) ==
    IF ~_get_soup(status) THEN [result |-> "fetch_failed", df |-> EmptyFrame]
    ELSE IF table.kind = "none" THEN [result |-> "no_table", df |-> EmptyFrame]
    ELSE IF table.kind = "unparsable" THEN [result |-> "parse_error", df |-> EmptyFrame]
    ELSE [result |-> "ok", df |-> table.df]

NextPageBreakOnNone(n, len, result) == IF result = "ok" THEN n + 1 ELSE len + 1

\* "for link in subsequent_links": the next page, whatever the last one gave
NextPage(n, len, result) == n + 1

ReturnAfterFailedStart(n) == Len(stat_ids) + 1

\* "if not initial_soup: continue": on to the next stat id
ContinueAfterFailedStart(n) == n + 1

\* "for stat_id in stat_ids" at the end of the body
NextStat(n) == n + 1

\* get_full_stat_dataframe, lines 85-98: fetch the start page, discover the pages
BeginStat ==
    /\ pc = "next_stat"
    /\ i <= Len(stat_ids)
    /\ \E status \in FetchStatus, hrefs \in SeqsUpTo(SiteHrefs(stat_ids[i]), MaxHrefs) :
        /\ since_fetch' = sleep_after(status)
        /\ last_status' = status
        /\ self_linked' = (initial_url(stat_ids[i]) \in Range(hrefs))
        /\ IF ~_get_soup(status)
           THEN /\ i' = ContinueAfterFailedStart(i)
                /\ UNCHANGED <<pc, subsequent_links>>
           ELSE /\ subsequent_links' =
                       PageList(initial_url(stat_ids[i]),
                                _get_subsequent_links(hrefs, stat_ids[i]))
                /\ pc' = "fetch_pages"
                /\ i' = i
    /\ k' = 1
    /\ df_list_for_stat' = <<>>
    /\ page_log' = <<>>
    /\ attempted' = Append(attempted, stat_ids[i])
    /\ UNCHANGED <<outer_sorts, all_dfs, master_df, page_hrefs, unique_links,
                   link_list, df_links>>

\* lines 101-104: one pass of "for link in subsequent_links"
FetchPage ==
    /\ pc = "fetch_pages"
    /\ k <= Len(subsequent_links)
    /\ \E status \in FetchStatus, table \in SiteTables(stat_ids[i]) :
        LET got == get_team_stats_data(status, table)
        IN /\ since_fetch' = sleep_after(status)
           /\ last_status' = status
           /\ df_list_for_stat' = IF got.result = "ok"
                                  THEN Append(df_list_for_stat, got.df)
                                  ELSE df_list_for_stat
           /\ page_log' = Append(page_log, [url |-> subsequent_links[k],
                                            result |-> got.result, df |-> got.df])
           /\ k' = NextPage(k, Len(subsequent_links), got.result)
    /\ UNCHANGED <<outer_sorts, pc, i, subsequent_links, all_dfs, master_df,
                   attempted, self_linked, page_hrefs, unique_links, link_list,
                   df_links>>

\* lines 106-112: concatenate the pages; combined_df_for_stat['Team'] raises
\* KeyError when no page had a Team column
EndStat ==
    /\ pc = "fetch_pages"
    /\ k > Len(subsequent_links)
    /\ IF df_list_for_stat = <<>>
       THEN /\ i' = NextStat(i)
            /\ pc' = "next_stat"
            /\ UNCHANGED all_dfs
       ELSE IF key \notin Range(concat(df_list_for_stat).cols)
       THEN /\ pc' = "raised"
            /\ UNCHANGED <<i, all_dfs>>
       ELSE /\ all_dfs' = Append(all_dfs, astype_str(concat(df_list_for_stat)))
            /\ i' = NextStat(i)
            /\ pc' = "next_stat"
    /\ UNCHANGED <<outer_sorts, subsequent_links, k, df_list_for_stat, master_df,
                   since_fetch, last_status, page_log, attempted, self_linked,
                   page_hrefs, unique_links, link_list, df_links>>

\* "return pd.DataFrame()" when all_dfs is empty
NoData == EmptyFrame

\* lines 114-116: nothing was collected
ReturnEmpty ==
    /\ pc = "next_stat"
    /\ i > Len(stat_ids)
    /\ all_dfs = <<>>
    /\ master_df' = NoData
    /\ pc' = "done"
    /\ page_log' = <<>>
    /\ UNCHANGED <<outer_sorts, i, subsequent_links, k, df_list_for_stat, all_dfs,
                   since_fetch, last_status, attempted, self_linked, page_hrefs,
                   unique_links, link_list, df_links>>

\* lines 118-129: seed with the first table, merge the others in order, fillna
MergeAll ==
    /\ pc = "next_stat"
    /\ i > Len(stat_ids)
    /\ all_dfs # <<>>
    /\ \E sorts \in BOOLEAN :
        /\ outer_sorts' = sorts
        /\ master_df' = fillna(MergeLoop(all_dfs, sorts))
    /\ pc' = "done"
    /\ page_log' = <<>>
    /\ UNCHANGED <<i, subsequent_links, k, df_list_for_stat, all_dfs,
                   since_fetch, last_status, attempted, self_linked, page_hrefs,
                   unique_links, link_list, df_links>>

Init ==
    /\ outer_sorts = FALSE
    /\ pc = "next_stat"
    /\ i = 1
    /\ subsequent_links = <<>>
    /\ k = 1
    /\ df_list_for_stat = <<>>
    /\ all_dfs = <<>>
    /\ master_df = EmptyFrame
    /\ since_fetch = 0
    /\ last_status = "none"
    /\ page_log = <<>>
    /\ attempted = <<>>
    /\ self_linked = FALSE
    /\ page_hrefs = <<>>
    /\ unique_links = <<>>
    /\ link_list = <<>>
    /\ df_links = <<>>

Next == BeginStat \/ FetchPage \/ EndStat \/ ReturnEmpty \/ MergeAll

\* one call of get_full_stat_dataframe(stat_ids)
Spec == Init /\ [][Next]_vars

----
\* Link discovery on one start page, by the collector and by the script.

\* lines 94: _get_subsequent_links on the soup of the start page of stat_ids[1]
DiscoverLinks ==
    /\ pc = "start_page"
    /\ unique_links' = _get_subsequent_links(page_hrefs, stat_ids[1])
    /\ pc' = "collector_links"
    /\ UNCHANGED <<outer_sorts, i, subsequent_links, k, df_list_for_stat, all_dfs,
                   master_df, since_fetch, last_status, page_log, attempted,
                   self_linked, page_hrefs, link_list, df_links>>

\* get_df of the script, lines 43-47: the links and the ones it goes on to fetch
get_df ==
    /\ pc = "start_page"
    /\ link_list' = get_subsequent_links(page_hrefs)
    /\ df_links' = AllButLast(get_subsequent_links(page_hrefs))
    /\ pc' = "script_links"
    /\ UNCHANGED <<outer_sorts, i, subsequent_links, k, df_list_for_stat, all_dfs,
                   master_df, since_fetch, last_status, page_log, attempted,
                   self_linked, page_hrefs, unique_links>>

InitLinks ==
    /\ outer_sorts = FALSE
    /\ pc = "start_page"
    /\ i = 1
    /\ subsequent_links = <<>>
    /\ k = 1
    /\ df_list_for_stat = <<>>
    /\ all_dfs = <<>>
    /\ master_df = EmptyFrame
    /\ since_fetch = 0
    /\ last_status = "none"
    /\ page_log = <<>>
    /\ attempted = <<>>
    /\ self_linked = FALSE
    /\ page_hrefs \in SeqsUpTo(LinkHrefs(stat_ids[1]), MaxHrefs)
    /\ unique_links = <<>>
    /\ link_list = <<>>
    /\ df_links = <<>>

NextLinks == DiscoverLinks \/ get_df

SpecLinks == InitLinks /\ [][NextLinks]_vars

----
\* Properties.

Filled(v) == IF v = NaN THEN FILL_VALUE ELSE v

\* the run returned a master table merged from at least one category
Merged == pc = "done" /\ all_dfs # <<>>

\* the first collected category that has column c
FirstWith(c) ==
    CHOOSE j \in DOMAIN all_dfs :
        /\ c \in Range(all_dfs[j].cols)
        /\ \A h \in 1..(j - 1) : c \notin Range(all_dfs[h].cols)

AllColumns == UNION {Range(all_dfs[j].cols) : j \in DOMAIN all_dfs}

AllTeams == UNION {Range(KeysOf(all_dfs[j])) : j \in DOMAIN all_dfs}

\* the pages of the current category that gave a table, in the order fetched
OkPages == SelectSeq(page_log, LAMBDA e : e.result = "ok")

LoggedUrls == [j \in DOMAIN page_log |-> page_log[j].url]

\* the category just finished was appended to all_dfs
CategoryAppended == pc = "next_stat" /\ OkPages # <<>>

CategoryTable == all_dfs[Len(all_dfs)]

\* C1: the links a discoverer returns hold each URL once, in order of first
\* appearance, for the collector's _get_subsequent_links and for the script's
\* get_subsequent_links alike, without trimming the list
C1_LinksDistinctInOrder ==
    /\ pc = "collector_links" =>
        /\ NoDuplicates(unique_links)
        /\ unique_links = FirstOccurrences(
                SelectSeq(page_hrefs, LAMBDA h : MatchesPrefixStats(h, stat_ids[1])))
    /\ pc = "script_links" =>
        /\ NoDuplicates(link_list)
        /\ link_list = FirstOccurrences(link_list)

\* C1 for the collector alone: _get_subsequent_links returns the retained hrefs
\* once each, in order of first appearance
C1_CollectorLinksDistinct ==
    pc = "collector_links" =>
        /\ NoDuplicates(unique_links)
        /\ unique_links = FirstOccurrences(
                SelectSeq(page_hrefs, LAMBDA h : MatchesPrefixStats(h, stat_ids[1])))

\* C1 for the links get_df fetches: trimming the last link leaves none twice
C1_TrimmedLinksDistinct == pc = "script_links" => NoDuplicates(df_links)

\* C2: a column that several categories have occurs once in the master table,
\* under its own name, and holds for every team of the first category that has
\* it that category's cells (an absent cell as the fill value)
C2_FirstSeenWins ==
    Merged =>
        /\ NoDuplicates(master_df.cols)
        /\ Range(master_df.cols) = AllColumns
        /\ \A c \in AllColumns \ {key} :
            LET A == all_dfs[FirstWith(c)]
            IN /\ \A r \in Range(master_df.rows) :
                    r[key] \in Range(KeysOf(A)) =>
                        \E a \in Range(A.rows) : a[key] = r[key] /\ r[c] = Filled(a[c])
               /\ \A a \in Range(A.rows) :
                    \E r \in Range(master_df.rows) : a[key] = r[key] /\ r[c] = Filled(a[c])

\* two categories gave Pts for one team, with different cells, and were merged
C2_Witness ==
    /\ Merged
    /\ Len(all_dfs) = 2
    /\ \E a \in Range(all_dfs[1].rows), b \in Range(all_dfs[2].rows) :
        /\ "Pts" \in DOMAIN a /\ "Pts" \in DOMAIN b
        /\ a[key] = b[key]
        /\ a["Pts"] # NaN /\ b["Pts"] # NaN /\ a["Pts"] # b["Pts"]

\* C3: every team of every collected category is in the master table, and its
\* cell is the fill value 0 in each column contributed by a category that does
\* not have the team
C3_OuterJoinComplete ==
    Merged =>
        /\ AllTeams = Range(KeysOf(master_df))
        /\ \A j \in DOMAIN all_dfs : \A r \in Range(master_df.rows) :
            r[key] \notin Range(KeysOf(all_dfs[j])) =>
                \A c \in Range(all_dfs[j].cols) \ {key} :
                    FirstWith(c) = j => r[c] = FILL_VALUE

\* a team only in the first category and a team only in the second, the second
\* contributing a column of its own
C3_Witness ==
    /\ Merged
    /\ Len(all_dfs) = 2
    /\ Range(KeysOf(all_dfs[1])) \ Range(KeysOf(all_dfs[2])) # {}
    /\ Range(KeysOf(all_dfs[2])) \ Range(KeysOf(all_dfs[1])) # {}
    /\ Range(all_dfs[2].cols) \ Range(all_dfs[1].cols) # {}

\* C4: no two rows of the master table have the same team
C4_TeamsUnique == pc = "done" => NoDuplicates(KeysOf(master_df))

TableA ==
    [cols |-> <<"Team", "Pts">>,
     rows |-> <<[Team |-> "Duke", Pts |-> "80"], [Team |-> "UNC", Pts |-> "75"]>>]

TableB ==
    [cols |-> <<"Team", "Reb">>,
     rows |-> <<[Team |-> "Duke", Reb |-> "30"], [Team |-> "Kansas", Reb |-> "28"]>>]

\* C5 as claimed: the teams of the master table are in order of first appearance
\* across the categories, so A then B gives Duke, UNC, Kansas
C5_RowsInFirstAppearanceOrder ==
    /\ Merged => FirstOccurrences(KeysOf(master_df)) =
                    FirstOccurrences(Flatten([j \in DOMAIN all_dfs |-> KeysOf(all_dfs[j])]))
    /\ (Merged /\ all_dfs = <<TableA, TableB>>) =>
        master_df = [cols |-> <<"Team", "Pts", "Reb">>,
                     rows |-> <<[Team |-> "Duke", Pts |-> "80", Reb |-> "30"],
                                [Team |-> "UNC", Pts |-> "75", Reb |-> "0"],
                                [Team |-> "Kansas", Pts |-> "0", Reb |-> "28"]>>]

\* C5 amended: A then B gives the three rows Duke 80 30, UNC 75 0, Kansas 0 28
\* under the columns Team, Pts, Reb; after a merge the teams stand in the order
\* pd.merge gives its join keys: sorted where pandas sorts them (Duke, Kansas,
\* UNC), in order of first appearance where it does not
C5_RowsInMergeOrder ==
    /\ (Merged /\ Len(all_dfs) > 1) =>
        FirstOccurrences(KeysOf(master_df)) =
            IF outer_sorts THEN sorted(AllTeams)
            ELSE FirstOccurrences(Flatten([j \in DOMAIN all_dfs |-> KeysOf(all_dfs[j])]))
    /\ (Merged /\ all_dfs = <<TableA, TableB>>) =>
        /\ master_df.cols = <<"Team", "Pts", "Reb">>
        /\ Len(master_df.rows) = 3
        /\ Range(master_df.rows) = {[Team |-> "Duke", Pts |-> "80", Reb |-> "30"],
                                    [Team |-> "UNC", Pts |-> "75", Reb |-> "0"],
                                    [Team |-> "Kansas", Pts |-> "0", Reb |-> "28"]}
        /\ KeysOf(master_df) = IF outer_sorts THEN <<"Duke", "Kansas", "UNC">>
                               ELSE <<"Duke", "UNC", "Kansas">>

\* A then B were merged by a pandas that sorts the keys
C5_Witness == Merged /\ all_dfs = <<TableA, TableB>> /\ outer_sorts

\* C6: every page of the page list is fetched, in order, whatever the earlier
\* pages gave; the tables kept are those of the pages that gave one; the
\* category's table has their rows, in that order, and no others
C6_FailedPagesSkipped ==
    /\ pc = "fetch_pages" =>
        /\ k = Len(page_log) + 1
        /\ LoggedUrls = SubSeq(subsequent_links, 1, Len(page_log))
        /\ df_list_for_stat = [j \in DOMAIN OkPages |-> OkPages[j].df]
    /\ (pc = "next_stat" /\ page_log # <<>>) => LoggedUrls = subsequent_links
    /\ CategoryAppended =>
        LET rows == Flatten([j \in DOMAIN OkPages |-> OkPages[j].df.rows])
        IN /\ Len(CategoryTable.rows) = Len(rows)
           /\ \A j \in DOMAIN rows : \A c \in DOMAIN rows[j] :
                CategoryTable.rows[j][c] =
                    IF c = key THEN str(rows[j][c]) ELSE rows[j][c]

\* a category of two pages whose first page failed and whose second gave the table
C6_Witness ==
    /\ CategoryAppended
    /\ Len(page_log) = 2
    /\ page_log[1].result # "ok"
    /\ page_log[2].result = "ok"
    /\ page_log[2].df.rows # <<>>

\* C7: the run requests the start page of every stat id, whatever the earlier
\* categories gave; when no category gave a table it returns the frame without
\* columns, and a run that merged a category returns a frame with the Team column
C7_FailSoftDistinctFailure ==
    pc = "done" =>
        /\ attempted = stat_ids
        /\ all_dfs = <<>> <=> master_df = EmptyFrame
        /\ all_dfs # <<>> => key \in Range(master_df.cols)

\* every category failed, the first at its start page
C7_Witness ==
    /\ pc = "done"
    /\ all_dfs = <<>>
    /\ attempted = stat_ids
    /\ master_df = EmptyFrame

\* a run that merged a category and returns no rows
C7_ZeroRowSuccess == pc = "done" /\ all_dfs # <<>> /\ master_df.rows = <<>>

\* C8: the page list of a category holds its start URL once, with and without
\* an href to the start page on the start page, and so do the pages fetched
C8_StartUrlOnce ==
    pc = "fetch_pages" =>
        /\ Occurrences(initial_url(stat_ids[i]), subsequent_links) = 1
        /\ k > Len(subsequent_links) =>
            Occurrences(initial_url(stat_ids[i]), LoggedUrls) = 1

\* all pages of a category were fetched whose start page links to itself and
\* to a second page
C8_Witness ==
    /\ pc = "fetch_pages"
    /\ self_linked
    /\ Len(subsequent_links) = 2
    /\ k > Len(subsequent_links)

\* C9: the category's table has the columns of the first page that gave a table,
\* and the rows of just the pages that have those columns, with a value in each
C9_DriftPagesDropped ==
    CategoryAppended =>
        LET first == OkPages[1].df
            same == SelectSeq(OkPages, LAMBDA e : Range(e.df.cols) = Range(first.cols))
        IN /\ Range(CategoryTable.cols) = Range(first.cols)
           /\ Len(CategoryTable.rows) =
                Len(Flatten([j \in DOMAIN same |-> same[j].df.rows]))
           /\ \A r \in Range(CategoryTable.rows) : \A c \in DOMAIN r : r[c] # NaN

\* C10: once a request has ended, in a response or in a failure, the delay has
\* passed before the collector goes on, so before its next request
C10_DelayAfterEveryFetch == last_status # "none" => since_fetch >= POLITE_DELAY

\* the last request timed out
C10_Witness == last_status = "timeout" /\ since_fetch >= POLITE_DELAY

====
